---------------------------- MODULE Spec2Model ----------------------------
(***************************************************************************)
(* EntropicRust: the simulation state of the chaotic-attractor visualizer  *)
(* (src/src/main_state.rs, src/src/particle.rs,                            *)
(* src/src/system_parameters.rs) as a state machine.                       *)
(*                                                                         *)
(* Numbers.  Every f32 of the program is modelled bit-exactly: an f32 is   *)
(* the integer holding its IEEE-754 binary32 bit pattern without the sign  *)
(* bit (0 .. 2^31-1) when the sign bit is clear, and  -(pattern) - 1  when *)
(* it is set (so -0.0 is -1).  The arithmetic operators below round to     *)
(* nearest, ties to even, and produce subnormals, infinities and one       *)
(* canonical NaN, as the hardware does.                                     *)
(***************************************************************************)
EXTENDS Integers, Sequences, FiniteSets, TLC

(***************************************************************************)
(* f32: representation.  2^23 = 8388608, 2^24 = 16777216, and the bit      *)
(* pattern of +infinity is 255 * 2^23 = 2139095040.  The operators are     *)
(* written as chains of small steps, each handing its intermediate values  *)
(* to the next as arguments.                                               *)
(***************************************************************************)
F32Bits(f) == IF f >= 0 THEN f ELSE -f - 1
F32Sign(f) == IF f >= 0 THEN 0 ELSE 1
F32Pack(s, bits) == IF s = 0 THEN bits ELSE -bits - 1
F32Inf(s) == F32Pack(s, 2139095040)
F32Zero(s) == F32Pack(s, 0)
F32NaN == 2143289344
F32IsNaN(f) == f > 2139095040 \/ f < -2139095041
F32IsInf(f) == f = 2139095040 \/ f = -2139095041
F32IsZero(f) == f = 0 \/ f = -1
F32IsFinite(f) == f < 2139095040 /\ f > -2139095041
F32Neg(f) == IF F32IsNaN(f) THEN F32NaN ELSE -f - 1

\* Number of significant bits of n, 0 <= n < 2^31.
BitLen(n) ==
  IF n < 1 THEN 0
  ELSE IF n < 65536
       THEN IF n < 256
            THEN IF n < 16
                 THEN IF n < 4
                      THEN IF n < 2
                           THEN 1
                           ELSE 2
                      ELSE IF n < 8
                           THEN 3
                           ELSE 4
                 ELSE IF n < 64
                      THEN IF n < 32
                           THEN 5
                           ELSE 6
                      ELSE IF n < 128
                           THEN 7
                           ELSE 8
            ELSE IF n < 4096
                 THEN IF n < 1024
                      THEN IF n < 512
                           THEN 9
                           ELSE 10
                      ELSE IF n < 2048
                           THEN 11
                           ELSE 12
                 ELSE IF n < 16384
                      THEN IF n < 8192
                           THEN 13
                           ELSE 14
                      ELSE IF n < 32768
                           THEN 15
                           ELSE 16
       ELSE IF n < 16777216
            THEN IF n < 1048576
                 THEN IF n < 262144
                      THEN IF n < 131072
                           THEN 17
                           ELSE 18
                      ELSE IF n < 524288
                           THEN 19
                           ELSE 20
                 ELSE IF n < 4194304
                      THEN IF n < 2097152
                           THEN 21
                           ELSE 22
                      ELSE IF n < 8388608
                           THEN 23
                           ELSE 24
            ELSE IF n < 268435456
                 THEN IF n < 67108864
                      THEN IF n < 33554432
                           THEN 25
                           ELSE 26
                      ELSE IF n < 134217728
                           THEN 27
                           ELSE 28
                 ELSE IF n < 1073741824
                      THEN IF n < 536870912
                           THEN 29
                           ELSE 30
                      ELSE 31

\* The significand and the exponent of its last bit, as stored: value = m * 2^e.
F32Mant(f) == IF F32Bits(f) < 8388608 THEN F32Bits(f)
              ELSE 8388608 + (F32Bits(f) % 8388608)
F32Lsb(f) == IF F32Bits(f) < 8388608 THEN -149 ELSE (F32Bits(f) \div 8388608) - 150
\* The same with the significand shifted left to 24 bits (f finite, not zero).
F32NormShift(f) == IF F32Bits(f) < 8388608 THEN 24 - BitLen(F32Bits(f)) ELSE 0
F32NormMant(f) == F32Mant(f) * 2^F32NormShift(f)
F32NormLsb(f) == F32Lsb(f) - F32NormShift(f)

\* The bit pattern for significand mant (at most 2^24) with last-bit exponent e2:
\* a mant below 2^23 comes with e2 = -149 (subnormal), and 2^24 carries into the
\* exponent.
F32Encode(s, mant, e2) ==
  IF e2 + 149 >= 254 THEN F32Inf(s)
  ELSE F32Pack(s, (e2 + 149) * 8388608 + mant)

\* q + r / 2^sh rounded to nearest, ties to even; half = 2^(sh-1).
F32RoundUp(s, q, r, half, sticky, e2) ==
  F32Encode(s, IF r > half \/ (r = half /\ (sticky \/ (q % 2) = 1)) THEN q + 1 ELSE q, e2)

\* m shifted right by sh bits (left when sh < 0) and rounded.
F32RoundAt(s, m, sticky, sh, e2) ==
  IF sh > 30 THEN F32Zero(s)
  ELSE IF sh <= 0 THEN F32Encode(s, m * 2^(-sh), e2)
  ELSE F32RoundUp(s, m \div (2^sh), m % (2^sh), 2^(sh - 1), sticky, e2)

\* sh0 is the shift that leaves 24 bits; a result below the normal range is
\* shifted further, to the last-bit exponent -149.
F32RoundShift(s, m, e, sticky, sh0) ==
  F32RoundAt(s, m, sticky, IF e + sh0 < -149 THEN -149 - e ELSE sh0,
             IF e + sh0 < -149 THEN -149 ELSE e + sh0)

\* The f32 nearest to (m + t) * 2^e, ties to even, where 0 < m < 2^31 and t is a
\* fraction in (0,1) when sticky and 0 otherwise (m has at least two bits more
\* than the result keeps whenever sticky).
F32Round(s, m, e, sticky) == F32RoundShift(s, m, e, sticky, BitLen(m) - 24)

(***************************************************************************)
(* f32: addition, subtraction                                              *)
(***************************************************************************)
\* A and Bq + (a fraction when Bst) in units of 2^e, with signs sa and sb.
F32AddSticky(sa, A, sb, Bq, Bst, e) ==
  IF sa # sb /\ ~Bst /\ A = Bq THEN F32Zero(0)
  ELSE F32Round(IF sa = sb \/ Bst \/ A > Bq THEN sa ELSE sb,
                IF sa = sb THEN A + Bq
                ELSE IF Bst THEN A - Bq - 1
                ELSE IF A > Bq THEN A - Bq ELSE Bq - A,
                e, Bst)

\* B2 is shifted right by sh bits, the bits lost making the sum inexact.
F32AddGuard(sa, A, sb, B2, sh, e) ==
  F32AddSticky(sa, A, sb, IF sh > 25 THEN 0 ELSE B2 \div (2^sh),
               IF sh > 25 THEN TRUE ELSE (B2 % (2^sh)) # 0, e)

\* ma * 2^ea + mb * 2^(ea - d), d >= 0: the larger operand keeps up to five
\* guard bits and one sticky bit.
F32AddOrdered(sa, ma, ea, sb, mb, d) ==
  F32AddGuard(sa, ma * 2^((IF d < 5 THEN d ELSE 5) + 1), sb, 2 * mb,
              d - (IF d < 5 THEN d ELSE 5), ea - (IF d < 5 THEN d ELSE 5) - 1)

F32AddFinite(sa, ma, ea, sb, mb, eb) ==
  IF ea >= eb THEN F32AddOrdered(sa, ma, ea, sb, mb, ea - eb)
  ELSE F32AddOrdered(sb, mb, eb, sa, ma, eb - ea)

F32Add(a, b) ==
  IF F32IsNaN(a) \/ F32IsNaN(b) THEN F32NaN
  ELSE IF F32IsInf(a)
       THEN (IF F32IsInf(b) /\ F32Sign(a) # F32Sign(b) THEN F32NaN ELSE a)
  ELSE IF F32IsInf(b) THEN b
  ELSE IF F32IsZero(a)
       THEN (IF F32IsZero(b)
             THEN (IF F32Sign(a) = 1 /\ F32Sign(b) = 1 THEN F32Zero(1) ELSE F32Zero(0))
             ELSE b)
  ELSE IF F32IsZero(b) THEN a
  ELSE F32AddFinite(F32Sign(a), F32Mant(a), F32Lsb(a),
                    F32Sign(b), F32Mant(b), F32Lsb(b))

F32Sub(a, b) == F32Add(a, F32Neg(b))

(***************************************************************************)
(* f32: multiplication, division by 3.0                                    *)
(***************************************************************************)
\* The 48-bit product H * 2^24 + Lo, cut to 30 bits and a sticky bit.
F32MulPack(s, H, Lo, e) ==
  F32Round(s, H * 64 + (Lo \div 262144), e + 18, (Lo % 262144) # 0)
F32MulJoin(s, h, low, e) == F32MulPack(s, h + (low \div 16777216), low % 16777216, e)
F32MulSum(s, hi, mid, lo, e) ==
  F32MulJoin(s, hi + (mid \div 4096), (mid % 4096) * 4096 + lo, e)
\* The product of two 24-bit significands from their 12-bit halves.
F32MulLimbs(s, a1, a0, b1, b0, e) ==
  F32MulSum(s, a1 * b1, a1 * b0 + a0 * b1, a0 * b0, e)
F32MulFinite(s, ma, ea, mb, eb) ==
  F32MulLimbs(s, ma \div 4096, ma % 4096, mb \div 4096, mb % 4096, ea + eb)

F32Mul(a, b) ==
  IF F32IsNaN(a) \/ F32IsNaN(b) THEN F32NaN
  ELSE IF F32IsInf(a) \/ F32IsInf(b)
       THEN (IF F32IsZero(a) \/ F32IsZero(b) THEN F32NaN
             ELSE F32Inf(IF F32Sign(a) = F32Sign(b) THEN 0 ELSE 1))
  ELSE IF F32IsZero(a) \/ F32IsZero(b) THEN F32Zero(IF F32Sign(a) = F32Sign(b) THEN 0 ELSE 1)
  ELSE F32MulFinite(IF F32Sign(a) = F32Sign(b) THEN 0 ELSE 1, F32NormMant(a), F32NormLsb(a),
                    F32NormMant(b), F32NormLsb(b))

\* n * 2^e / 3
F32Div3Finite(s, n, e) == F32Round(s, n \div 3, e, (n % 3) # 0)

\* a / 3.0
F32Div3(a) ==
  IF F32IsNaN(a) THEN F32NaN
  ELSE IF F32IsInf(a) \/ F32IsZero(a) THEN a
  ELSE F32Div3Finite(F32Sign(a), F32NormMant(a) * 64, F32NormLsb(a) - 6)

(***************************************************************************)
(* f32: comparison, min, max (Rust's f32::min / f32::max: a NaN argument   *)
(* yields the other argument)                                              *)
(***************************************************************************)
F32Key(f) == IF f >= 0 THEN f ELSE f + 1
F32Lt(a, b) == ~F32IsNaN(a) /\ ~F32IsNaN(b) /\ F32Key(a) < F32Key(b)
F32Le(a, b) == ~F32IsNaN(a) /\ ~F32IsNaN(b) /\ F32Key(a) <= F32Key(b)
F32Min(a, b) == IF F32IsNaN(a) THEN b ELSE IF F32IsNaN(b) THEN a
                ELSE IF F32Lt(b, a) THEN b ELSE a
F32Max(a, b) == IF F32IsNaN(a) THEN b ELSE IF F32IsNaN(b) THEN a
                ELSE IF F32Lt(a, b) THEN b ELSE a

(***************************************************************************)
(* f32: literals.  F32Dec(s, n, d) is the f32 nearest to (-1)^s * n / d,   *)
(* which is what the compiler makes of a decimal literal.                  *)
(***************************************************************************)
RECURSIVE F32DecBits(_, _, _, _, _)
F32DecBits(s, q, r, d, e) ==
  IF q >= 134217728 THEN F32Round(s, q, e, r # 0)
  ELSE F32DecBits(s, 2 * q + (IF 2 * r >= d THEN 1 ELSE 0),
                  IF 2 * r >= d THEN 2 * r - d ELSE 2 * r, d, e - 1)

F32Dec(s, n, d) == IF n = 0 THEN F32Zero(s) ELSE F32DecBits(s, n \div d, n % d, d, 0)

(***************************************************************************)
(* Program constants                                                       *)
(***************************************************************************)
MAX_TRAIL_LENGTH == 100
SCREEN_WIDTH == F32Dec(0, 800, 1)
SCREEN_HEIGHT == F32Dec(0, 600, 1)
DefaultParticleCount == 50
MaxParticleCount == 200
MinParticleCount == 5
ParticleCountStep == 5

SystemType == {"Lorenz", "Rossler", "Aizawa", "ChenLee"}

\* The literals of the source, as the compiler rounds them to f32.
F32One == F32Dec(0, 1, 1)
F32Two == F32Dec(0, 2, 1)
F32Three == F32Dec(0, 3, 1)
F32Half == F32Dec(0, 1, 2)
Lit0_1 == F32Dec(0, 1, 10)
Lit0_01 == F32Dec(0, 1, 100)
Lit5_0 == F32Dec(0, 5, 1)
DefaultDt == F32Dec(0, 1, 100)
DefaultTimeScale == F32Dec(0, 1, 1)

\* a / 2.0 (exact: the same rounding as a * 0.5)
F32Div2(a) == F32Mul(a, F32Half)

\* SystemParameters::new
SystemParametersNew ==
  [sigma   |-> F32Dec(0, 10, 1),
   rho     |-> F32Dec(0, 28, 1),
   beta    |-> F32Div3(F32Dec(0, 8, 1)),
   a       |-> F32Dec(0, 2, 10),
   b       |-> F32Dec(0, 2, 10),
   c       |-> F32Dec(0, 57, 10),
   alpha   |-> F32Dec(0, 95, 100),
   gamma   |-> F32Dec(0, 6, 10),
   delta   |-> F32Dec(0, 35, 10),
   epsilon |-> F32Dec(0, 25, 100),
   p       |-> F32Dec(0, 5, 1),
   q       |-> F32Dec(1, 10, 1),
   r       |-> F32Dec(1, 38, 100)]

Lit10_0 == F32Dec(0, 10, 1)
Lit30_0 == F32Dec(0, 30, 1)
Lit100_0 == F32Dec(0, 100, 1)

get_scale_factor(st) ==
  CASE st = "Lorenz"  -> Lit10_0
    [] st = "Rossler" -> Lit30_0
    [] st = "Aizawa"  -> Lit100_0
    [] st = "ChenLee" -> Lit30_0

\* SCREEN_WIDTH / 2.0, SCREEN_HEIGHT / 2.0
HalfWidth == F32Div2(SCREEN_WIDTH)
HalfHeight == F32Div2(SCREEN_HEIGHT)

(***************************************************************************)
(* Particle                                                                *)
(***************************************************************************)
\* Particle::new; the colour is the three channels drawn by the caller's rng.
ParticleNew(x, y, z, color) ==
  [x |-> x, y |-> y, z |-> z, trail |-> << >>, color |-> color]

\* Faulty updates that the trail properties must reject: one that pushes the first
\* point once, one that evicts the newest point instead of the oldest.
ParticleUpdate_NoDuplicate(p, new_x, new_y, new_z, screen_pos) ==
  [p EXCEPT !.trail = Append(IF Len(p.trail) >= MAX_TRAIL_LENGTH
                             THEN Tail(p.trail) ELSE p.trail, screen_pos),
            !.x = new_x, !.y = new_y, !.z = new_z]

ParticleUpdate_EvictNewest(p, new_x, new_y, new_z, screen_pos) ==
  [p EXCEPT !.trail = IF Len(p.trail) = 0 THEN <<screen_pos, screen_pos>>
                      ELSE Append(IF Len(p.trail) >= MAX_TRAIL_LENGTH
                                  THEN SubSeq(p.trail, 1, Len(p.trail) - 1)
                                  ELSE p.trail, screen_pos),
            !.x = new_x, !.y = new_y, !.z = new_z]

\* A faulty update that also resets the colour to white.
ParticleUpdate_Recolour(p, new_x, new_y, new_z, screen_pos) ==
  [p EXCEPT !.trail = IF Len(p.trail) = 0 THEN <<screen_pos, screen_pos>>
                      ELSE Append(IF Len(p.trail) >= MAX_TRAIL_LENGTH
                                  THEN Tail(p.trail) ELSE p.trail, screen_pos),
            !.x = new_x, !.y = new_y, !.z = new_z,
            !.color = <<F32One, F32One, F32One, F32One>>]

\* Particle::update
ParticleUpdate(p, new_x, new_y, new_z, screen_pos) ==
  LET t1 == IF Len(p.trail) >= MAX_TRAIL_LENGTH /\ MAX_TRAIL_LENGTH > 0
            THEN Tail(p.trail) ELSE p.trail
      t2 == IF MAX_TRAIL_LENGTH > 0
            THEN (IF Len(t1) = 0 THEN <<screen_pos, screen_pos>>
                                 ELSE Append(t1, screen_pos))
            ELSE t1
  IN  [p EXCEPT !.trail = t2, !.x = new_x, !.y = new_y, !.z = new_z]

\* Particle::get_screen_pos
get_screen_pos(p, st) ==
  <<F32Add(HalfWidth, F32Mul(p.x, get_scale_factor(st))),
    F32Add(HalfHeight, F32Mul(p.y, get_scale_factor(st)))>>

(***************************************************************************)
(* Kinetics: the match of MainState::update_particles                      *)
(***************************************************************************)
\* z.powi(3): repeated multiplication
F32Powi3(z) == F32Mul(F32Mul(z, z), z)

LorenzDerivative(P, x, y, z) ==
  <<F32Mul(P.sigma, F32Sub(y, x)),
    F32Sub(F32Mul(x, F32Sub(P.rho, z)), y),
    F32Sub(F32Mul(x, y), F32Mul(P.beta, z))>>

RosslerDerivative(P, x, y, z) ==
  <<F32Sub(F32Neg(y), z),
    F32Add(x, F32Mul(P.a, y)),
    F32Add(P.b, F32Mul(z, F32Sub(x, P.c)))>>

AizawaDerivative(P, x, y, z) ==
  <<F32Sub(F32Mul(F32Sub(z, P.gamma), x), F32Mul(P.delta, y)),
    F32Add(F32Mul(P.delta, x), F32Mul(F32Sub(z, P.gamma), y)),
    F32Add(
      F32Sub(
        F32Sub(F32Add(P.alpha, F32Mul(P.beta, z)), F32Div3(F32Powi3(z))),
        F32Mul(F32Add(F32Mul(x, x), F32Mul(y, y)),
               F32Add(F32One, F32Mul(P.epsilon, z)))),
      F32Mul(F32Mul(F32Mul(F32Mul(P.delta, z), x), x), x))>>

\* Faulty Chen-Lee kinetics (x*y*3 for x*y/3) that the Euler property must reject.
ChenLeeDerivative_TimesThree(P, x, y, z) ==
  <<F32Sub(F32Mul(P.p, x), F32Mul(y, z)),
    F32Add(F32Mul(P.q, y), F32Mul(x, z)),
    F32Add(F32Mul(P.r, z), F32Mul(F32Mul(x, y), F32Three))>>

ChenLeeDerivative(P, x, y, z) ==
  <<F32Sub(F32Mul(P.p, x), F32Mul(y, z)),
    F32Add(F32Mul(P.q, y), F32Mul(x, z)),
    F32Add(F32Mul(P.r, z), F32Div3(F32Mul(x, y)))>>

Derivative(st, P, x, y, z) ==
  CASE st = "Lorenz"  -> LorenzDerivative(P, x, y, z)
    [] st = "Rossler" -> RosslerDerivative(P, x, y, z)
    [] st = "Aizawa"  -> AizawaDerivative(P, x, y, z)
    [] st = "ChenLee" -> ChenLeeDerivative(P, x, y, z)

\* The loop body of update_particles up to the call of particle.update, in two
\* steps.  ScreenArgs: screen_pos from the new state, and the arguments passed to
\* particle.update (new_x, new_y, new_z, screen_pos).
ScreenArgs(new_x, new_y, new_z, scale_factor) ==
  [x |-> new_x, y |-> new_y, z |-> new_z,
   pos |-> <<F32Add(HalfWidth, F32Mul(new_x, scale_factor)),
             F32Add(HalfHeight, F32Mul(new_y, scale_factor))>>]

\* UpdateArgs: the new state from the derivative d = <<dx, dy, dz>>; step is
\* self.dt * self.time_scale.
EulerArgs(p, d, step, scale_factor) ==
  ScreenArgs(F32Add(p.x, F32Mul(d[1], step)),
             F32Add(p.y, F32Mul(d[2], step)),
             F32Add(p.z, F32Mul(d[3], step)), scale_factor)

UpdateArgs(p, st, P, step) ==
  EulerArgs(p, Derivative(st, P, p.x, p.y, p.z), step, get_scale_factor(st))

(***************************************************************************)
(* Random draws.  rand's thread_rng is an input: a reseed picks a stream   *)
(* (seed) and the n-th draw of the stream is one of RngLevels evenly       *)
(* spaced variates of [0, 1).  gen_range(lo..hi) maps a variate u to       *)
(* u * (hi - lo) + lo, as rand does.                                       *)
(***************************************************************************)
NumSeeds == 2
RngLevels == 8
Seeds == 1..NumSeeds

RngUnit == [k \in 0..(RngLevels - 1) |-> F32Dec(0, k, RngLevels)]
RngDraw(seed, n) == (seed * 3 + n * 5 + (n \div RngLevels) * 7) % RngLevels

GenRange(u, lo, hi) == F32Add(F32Mul(u, F32Sub(hi, lo)), lo)

\* Faulty ranges: the Lorenz ranges for every variant.
InitRanges_LorenzEverywhere(st) ==
  <<<<F32Dec(1, 1, 1), F32Dec(0, 1, 1)>>,
    <<F32Dec(1, 1, 1), F32Dec(0, 1, 1)>>,
    <<F32Dec(0, 15, 1), F32Dec(0, 25, 1)>> >>

\* The initial-condition ranges of initialize_particles: <<x, y, z>>, each <<lo, hi>>.
InitRanges(st) ==
  CASE st = "Lorenz"  -> <<<<F32Dec(1, 1, 1), F32Dec(0, 1, 1)>>,
                           <<F32Dec(1, 1, 1), F32Dec(0, 1, 1)>>,
                           <<F32Dec(0, 15, 1), F32Dec(0, 25, 1)>> >>
    [] st = "Rossler" -> <<<<F32Dec(1, 1, 1), F32Dec(0, 1, 1)>>,
                           <<F32Dec(1, 1, 1), F32Dec(0, 1, 1)>>,
                           <<F32Dec(1, 1, 1), F32Dec(0, 1, 1)>> >>
    [] st = "Aizawa"  -> <<<<F32Dec(1, 1, 10), F32Dec(0, 1, 10)>>,
                           <<F32Dec(1, 1, 10), F32Dec(0, 1, 10)>>,
                           <<F32Dec(1, 1, 10), F32Dec(0, 1, 10)>> >>
    [] st = "ChenLee" -> <<<<F32Dec(1, 1, 1), F32Dec(0, 1, 1)>>,
                           <<F32Dec(1, 1, 1), F32Dec(0, 1, 1)>>,
                           <<F32Dec(1, 1, 1), F32Dec(0, 1, 1)>> >>

\* gen_range over the ranges above and over the colour range 0.5..1.0, tabulated
\* per variate.
InitSample == [st \in SystemType |-> [c \in 1..3 |-> [k \in 0..(RngLevels - 1) |->
                 GenRange(RngUnit[k], InitRanges(st)[c][1], InitRanges(st)[c][2])]]]
ColorSample == [k \in 0..(RngLevels - 1) |->
                 GenRange(RngUnit[k], F32Dec(0, 1, 2), F32Dec(0, 1, 1))]

\* The particles initialize_particles pushes: particle i takes draws 6(i-1) ..
\* 6(i-1)+5 of the stream (x, y, z, then the three colour channels of Particle::new).
InitializeParticles(st, count, seed) ==
  [i \in 1..count |->
     ParticleNew(InitSample[st][1][RngDraw(seed, 6 * (i - 1))],
                 InitSample[st][2][RngDraw(seed, 6 * (i - 1) + 1)],
                 InitSample[st][3][RngDraw(seed, 6 * (i - 1) + 2)],
                 <<ColorSample[RngDraw(seed, 6 * (i - 1) + 3)],
                   ColorSample[RngDraw(seed, 6 * (i - 1) + 4)],
                   ColorSample[RngDraw(seed, 6 * (i - 1) + 5)],
                   F32One>>)]

(***************************************************************************)
(* State                                                                   *)
(***************************************************************************)
VARIABLES
  particles,       \* MainState.particles: sequence of particle records
  system_type,     \* MainState.system_type
  parameters,      \* MainState.parameters
  dt,              \* MainState.dt
  show_ui,         \* MainState.show_ui
  trail_enabled,   \* MainState.trail_enabled
  time_scale,      \* MainState.time_scale
  particle_count,  \* MainState.particle_count
  running,         \* the event loop still delivers events (no Escape yet)
  hist,            \* history: per particle, the screen_pos of every update since Particle::new
  last,            \* history: the last event handled, and what held just before it
  fuel,            \* exploration budget left
  price            \* what each class of event costs of the budget

main_state == <<particles, system_type, parameters, dt, show_ui, trail_enabled,
                time_scale, particle_count>>
vars == <<particles, system_type, parameters, dt, show_ui, trail_enabled,
          time_scale, particle_count, running, hist, last, fuel, price>>

\* Some particle has been updated since it was constructed.
Ticked == \E i \in DOMAIN hist : hist[i] # << >>

\* Every event is delivered while the loop runs and is paid from the budget; the
\* history records it with the variant, the count, the time scale and Ticked as
\* they were before.  For T and H it keeps the whole state before the press
\* (origin); for Z and X it counts the presses of the same key in a row (run) and
\* keeps the time scale the row started from (run_from).
Event(name, class) ==
  /\ running
  /\ fuel >= price[class]
  /\ fuel' = fuel - price[class]
  /\ price' = price
  /\ last' = [event |-> name, system_type |-> system_type,
              particle_count |-> particle_count, time_scale |-> time_scale,
              ticked |-> Ticked,
              origin |-> IF name \in {"T", "H"} THEN main_state ELSE << >>,
              run |-> IF name \in {"Z", "X"}
                      THEN (IF last.event = name THEN last.run + 1 ELSE 1) ELSE 0,
              run_from |-> IF name \in {"Z", "X"}
                           THEN (IF last.event = name THEN last.run_from ELSE time_scale)
                           ELSE 0]

\* self.initialize_particles() with the rng stream seed, for the variant st and the
\* count n in force when it is called.
Reseed(st, n, seed) ==
  /\ particles' = InitializeParticles(st, n, seed)
  /\ hist' = [i \in 1..n |-> << >>]

(***************************************************************************)
(* EventHandler::update -> update_particles                                *)
(***************************************************************************)
\* A faulty tick in which every particle's kinetics read the z of the first
\* particle: the particles are no longer independent.
Tick_SharedState ==
  /\ Event("Tick", "tick")
  /\ \E args \in {[i \in DOMAIN particles |->
                     UpdateArgs([particles[i] EXCEPT !.z = particles[1].z],
                                system_type, parameters, F32Mul(dt, time_scale))]} :
        /\ particles' = [i \in DOMAIN particles |->
                           ParticleUpdate(particles[i], args[i].x, args[i].y,
                                          args[i].z, args[i].pos)]
        /\ hist' = [i \in DOMAIN hist |-> Append(hist[i], args[i].pos)]
  /\ UNCHANGED <<system_type, parameters, dt, show_ui, trail_enabled, time_scale,
                 particle_count, running>>

Tick ==
  /\ Event("Tick", "tick")
  /\ \E args \in {[i \in DOMAIN particles |->
                     UpdateArgs(particles[i], system_type, parameters,
                                F32Mul(dt, time_scale))]} :
        /\ particles' = [i \in DOMAIN particles |->
                           ParticleUpdate(particles[i], args[i].x, args[i].y,
                                          args[i].z, args[i].pos)]
        /\ hist' = [i \in DOMAIN hist |-> Append(hist[i], args[i].pos)]
  /\ UNCHANGED <<system_type, parameters, dt, show_ui, trail_enabled, time_scale,
                 particle_count, running>>

(***************************************************************************)
(* EventHandler::key_down_event                                            *)
(***************************************************************************)
\* Faulty switches that the switching properties must reject: one that reseeds
\* also for the active variant, one that sets the variant and keeps the particles.
SwitchKey_AlwaysReseed(name, target) ==
  /\ Event(name, "switch")
  /\ system_type' = target
  /\ \E seed \in Seeds : Reseed(target, particle_count, seed)
  /\ UNCHANGED <<parameters, dt, show_ui, trail_enabled, time_scale,
                 particle_count, running>>

SwitchKey_KeepParticles(name, target) ==
  /\ Event(name, "switch")
  /\ system_type' = target
  /\ UNCHANGED <<particles, hist, parameters, dt, show_ui, trail_enabled,
                 time_scale, particle_count, running>>

\* A faulty switch that restores the default parameters when the variant changes.
SwitchKey_DefaultParameters(name, target) ==
  /\ Event(name, "switch")
  /\ IF system_type # target
     THEN /\ system_type' = target
          /\ parameters' = SystemParametersNew
          /\ \E seed \in Seeds : Reseed(target, particle_count, seed)
     ELSE UNCHANGED <<system_type, parameters, particles, hist>>
  /\ UNCHANGED <<dt, show_ui, trail_enabled, time_scale, particle_count, running>>

\* Key1 .. Key4
SwitchKey(name, target) ==
  /\ Event(name, "switch")
  /\ IF system_type # target
     THEN /\ system_type' = target
          /\ \E seed \in Seeds : Reseed(target, particle_count, seed)
     ELSE UNCHANGED <<system_type, particles, hist>>
  /\ UNCHANGED <<parameters, dt, show_ui, trail_enabled, time_scale,
                 particle_count, running>>

Key1 == SwitchKey("Key1", "Lorenz")
Key2 == SwitchKey("Key2", "Rossler")
Key3 == SwitchKey("Key3", "Aizawa")
Key4 == SwitchKey("Key4", "ChenLee")

\* A key that only assigns the parameters.
ParamKey(name, new_parameters) ==
  /\ Event(name, "param")
  /\ parameters' = new_parameters
  /\ UNCHANGED <<particles, hist, system_type, dt, show_ui, trail_enabled,
                 time_scale, particle_count, running>>

\* A faulty Q that, under Rossler, adjusts Lorenz's sigma: the separation of the
\* coefficients must reject it.
KeyQ_ForeignField == ParamKey("Q",
  CASE system_type = "Lorenz"  -> [parameters EXCEPT !.sigma = F32Add(@, Lit0_1)]
    [] system_type = "Rossler" -> [parameters EXCEPT !.sigma = F32Add(@, Lit0_01)]
    [] system_type = "Aizawa"  -> [parameters EXCEPT !.alpha = F32Add(@, Lit0_01)]
    [] system_type = "ChenLee" -> [parameters EXCEPT !.p = F32Add(@, Lit0_1)])

KeyQ == ParamKey("Q",
  CASE system_type = "Lorenz"  -> [parameters EXCEPT !.sigma = F32Add(@, Lit0_1)]
    [] system_type = "Rossler" -> [parameters EXCEPT !.a = F32Add(@, Lit0_01)]
    [] system_type = "Aizawa"  -> [parameters EXCEPT !.alpha = F32Add(@, Lit0_01)]
    [] system_type = "ChenLee" -> [parameters EXCEPT !.p = F32Add(@, Lit0_1)])

KeyA == ParamKey("A",
  CASE system_type = "Lorenz"  -> [parameters EXCEPT !.sigma = F32Sub(@, Lit0_1)]
    [] system_type = "Rossler" -> [parameters EXCEPT !.a = F32Sub(@, Lit0_01)]
    [] system_type = "Aizawa"  -> [parameters EXCEPT !.alpha = F32Sub(@, Lit0_01)]
    [] system_type = "ChenLee" -> [parameters EXCEPT !.p = F32Sub(@, Lit0_1)])

KeyW == ParamKey("W",
  CASE system_type = "Lorenz"  -> [parameters EXCEPT !.rho = F32Add(@, Lit0_1)]
    [] system_type = "Rossler" -> [parameters EXCEPT !.b = F32Add(@, Lit0_01)]
    [] system_type = "Aizawa"  -> [parameters EXCEPT !.gamma = F32Add(@, Lit0_01)]
    [] system_type = "ChenLee" -> [parameters EXCEPT !.q = F32Add(@, Lit0_1)])

\* A faulty S that, under Rossler, lowers b by 0.1 instead of 0.01.
KeyS_MajorDelta == ParamKey("S",
  CASE system_type = "Lorenz"  -> [parameters EXCEPT !.rho = F32Sub(@, Lit0_1)]
    [] system_type = "Rossler" -> [parameters EXCEPT !.b = F32Sub(@, Lit0_1)]
    [] system_type = "Aizawa"  -> [parameters EXCEPT !.gamma = F32Sub(@, Lit0_01)]
    [] system_type = "ChenLee" -> [parameters EXCEPT !.q = F32Sub(@, Lit0_1)])

KeyS == ParamKey("S",
  CASE system_type = "Lorenz"  -> [parameters EXCEPT !.rho = F32Sub(@, Lit0_1)]
    [] system_type = "Rossler" -> [parameters EXCEPT !.b = F32Sub(@, Lit0_01)]
    [] system_type = "Aizawa"  -> [parameters EXCEPT !.gamma = F32Sub(@, Lit0_01)]
    [] system_type = "ChenLee" -> [parameters EXCEPT !.q = F32Sub(@, Lit0_1)])

KeyE == ParamKey("E",
  CASE system_type = "Lorenz"  -> [parameters EXCEPT !.beta = F32Add(@, Lit0_01)]
    [] system_type = "Rossler" -> [parameters EXCEPT !.c = F32Add(@, Lit0_01)]
    [] system_type = "Aizawa"  -> [parameters EXCEPT !.delta = F32Add(@, Lit0_01)]
    [] system_type = "ChenLee" -> [parameters EXCEPT !.r = F32Add(@, Lit0_01)])

KeyD == ParamKey("D",
  CASE system_type = "Lorenz"  -> [parameters EXCEPT !.beta = F32Sub(@, Lit0_01)]
    [] system_type = "Rossler" -> [parameters EXCEPT !.c = F32Sub(@, Lit0_01)]
    [] system_type = "Aizawa"  -> [parameters EXCEPT !.delta = F32Sub(@, Lit0_01)]
    [] system_type = "ChenLee" -> [parameters EXCEPT !.r = F32Sub(@, Lit0_01)])

\* Faulty R and F that reseed under Aizawa as well.
EpsilonOrResetKey_AlsoReseeds(name, new_epsilon) ==
  /\ Event(name, "reset")
  /\ parameters' = IF system_type = "Aizawa"
                   THEN [parameters EXCEPT !.epsilon = new_epsilon] ELSE parameters
  /\ \E seed \in Seeds : Reseed(system_type, particle_count, seed)
  /\ UNCHANGED <<system_type, dt, show_ui, trail_enabled, time_scale,
                 particle_count, running>>

\* R and F: epsilon under Aizawa, a reseed otherwise.
EpsilonOrResetKey(name, new_epsilon) ==
  /\ Event(name, "reset")
  /\ IF system_type = "Aizawa"
     THEN /\ parameters' = [parameters EXCEPT !.epsilon = new_epsilon]
          /\ UNCHANGED <<particles, hist>>
     ELSE /\ \E seed \in Seeds : Reseed(system_type, particle_count, seed)
          /\ UNCHANGED parameters
  /\ UNCHANGED <<system_type, dt, show_ui, trail_enabled, time_scale,
                 particle_count, running>>

KeyR == EpsilonOrResetKey("R", F32Add(parameters.epsilon, Lit0_01))
KeyF == EpsilonOrResetKey("F", F32Sub(parameters.epsilon, Lit0_01))

KeyBack ==
  /\ Event("Back", "reset")
  /\ \E seed \in Seeds : Reseed(system_type, particle_count, seed)
  /\ UNCHANGED <<system_type, parameters, dt, show_ui, trail_enabled, time_scale,
                 particle_count, running>>

\* Z and X
TimeScaleKey(name, new_time_scale) ==
  /\ Event(name, "scale")
  /\ time_scale' = new_time_scale
  /\ UNCHANGED <<particles, hist, system_type, parameters, dt, show_ui,
                 trail_enabled, particle_count, running>>

\* A faulty Z without the upper clamp.
KeyZ_Unclamped == TimeScaleKey("Z", F32Add(time_scale, Lit0_1))

KeyZ == TimeScaleKey("Z", F32Min(F32Add(time_scale, Lit0_1), Lit5_0))
\* A faulty X that lowers the time scale by 0.01.
KeyX_MinorDelta == TimeScaleKey("X", F32Max(F32Sub(time_scale, Lit0_01), Lit0_1))

KeyX == TimeScaleKey("X", F32Max(F32Sub(time_scale, Lit0_1), Lit0_1))

\* usize arithmetic of the C and V arms
UsizeMin(a, b) == IF a < b THEN a ELSE b
UsizeMax(a, b) == IF a > b THEN a ELSE b
SaturatingSub(a, b) == IF a >= b THEN a - b ELSE 0

\* A faulty C that reseeds before it assigns the count.
KeyC_ReseedBeforeCount ==
  /\ Event("C", "count")
  /\ \E seed \in Seeds : Reseed(system_type, particle_count, seed)
  /\ particle_count' = UsizeMin(particle_count + ParticleCountStep, MaxParticleCount)
  /\ UNCHANGED <<system_type, parameters, dt, show_ui, trail_enabled, time_scale,
                 running>>

KeyC ==
  /\ Event("C", "count")
  /\ particle_count' = UsizeMin(particle_count + ParticleCountStep, MaxParticleCount)
  /\ \E seed \in Seeds : Reseed(system_type, particle_count', seed)
  /\ UNCHANGED <<system_type, parameters, dt, show_ui, trail_enabled, time_scale,
                 running>>

\* Faulty Vs: one without the lower clamp, one that reseeds only when the count
\* has changed.
KeyV_NoFloor ==
  /\ Event("V", "count")
  /\ particle_count' = SaturatingSub(particle_count, ParticleCountStep)
  /\ IF particle_count' > 0
     THEN \E seed \in Seeds : Reseed(system_type, particle_count', seed)
     ELSE UNCHANGED <<particles, hist>>
  /\ UNCHANGED <<system_type, parameters, dt, show_ui, trail_enabled, time_scale,
                 running>>

KeyV_ReseedIfChanged ==
  /\ Event("V", "count")
  /\ particle_count' = UsizeMax(SaturatingSub(particle_count, ParticleCountStep),
                                MinParticleCount)
  /\ IF particle_count' # particle_count
     THEN \E seed \in Seeds : Reseed(system_type, particle_count', seed)
     ELSE UNCHANGED <<particles, hist>>
  /\ UNCHANGED <<system_type, parameters, dt, show_ui, trail_enabled, time_scale,
                 running>>

KeyV ==
  /\ Event("V", "count")
  /\ particle_count' = UsizeMax(SaturatingSub(particle_count, ParticleCountStep),
                                MinParticleCount)
  /\ IF particle_count' > 0
     THEN \E seed \in Seeds : Reseed(system_type, particle_count', seed)
     ELSE UNCHANGED <<particles, hist>>
  /\ UNCHANGED <<system_type, parameters, dt, show_ui, trail_enabled, time_scale,
                 running>>

\* A faulty T that also clears the trails.
KeyT_ClearsTrails ==
  /\ Event("T", "toggle")
  /\ trail_enabled' = ~trail_enabled
  /\ particles' = [i \in DOMAIN particles |-> [particles[i] EXCEPT !.trail = << >>]]
  /\ UNCHANGED <<hist, system_type, parameters, dt, show_ui,
                 time_scale, particle_count, running>>

KeyT ==
  /\ Event("T", "toggle")
  /\ trail_enabled' = ~trail_enabled
  /\ UNCHANGED <<particles, hist, system_type, parameters, dt, show_ui,
                 time_scale, particle_count, running>>

KeyH ==
  /\ Event("H", "toggle")
  /\ show_ui' = ~show_ui
  /\ UNCHANGED <<particles, hist, system_type, parameters, dt, trail_enabled,
                 time_scale, particle_count, running>>

\* Escape: event::quit ends the event loop; the state is left as it is.
KeyEscape ==
  /\ Event("Escape", "toggle")
  /\ running' = FALSE
  /\ UNCHANGED <<particles, hist, system_type, parameters, dt, show_ui,
                 trail_enabled, time_scale, particle_count>>

\* Any other key: the `_ => ()` arm.
KeyOther ==
  /\ Event("Other", "toggle")
  /\ UNCHANGED <<particles, hist, system_type, parameters, dt, show_ui,
                 trail_enabled, time_scale, particle_count, running>>

Next ==
  \/ Tick
  \/ Key1 \/ Key2 \/ Key3 \/ Key4
  \/ KeyQ \/ KeyA \/ KeyW \/ KeyS \/ KeyE \/ KeyD
  \/ KeyR \/ KeyF \/ KeyBack
  \/ KeyZ \/ KeyX
  \/ KeyC \/ KeyV
  \/ KeyT \/ KeyH
  \/ KeyEscape \/ KeyOther

(***************************************************************************)
(* MainState::new, and the exploration budgets                             *)
(***************************************************************************)
EventClass == {"tick", "switch", "param", "reset", "scale", "count", "toggle"}

\* MainState::new with the rng stream seed.
MainStateNew(seed) ==
  /\ system_type = "Lorenz"
  /\ parameters = SystemParametersNew
  /\ dt = DefaultDt
  /\ show_ui = TRUE
  /\ trail_enabled = TRUE
  /\ time_scale = DefaultTimeScale
  /\ particle_count = DefaultParticleCount
  /\ particles = InitializeParticles("Lorenz", DefaultParticleCount, seed)
  /\ hist = [i \in 1..DefaultParticleCount |-> << >>]
  /\ running = TRUE
  /\ last = [event |-> "new", system_type |-> "Lorenz",
             particle_count |-> DefaultParticleCount,
             time_scale |-> DefaultTimeScale, ticked |-> FALSE,
             origin |-> << >>, run |-> 0, run_from |-> 0]

\* Spec: the interleavings of ticks and keys that the budget WideFuel pays for.
WideFuel == 9
WideTickPrice == 3
WideSwitchPrice == 2
WideKeyPrice == 4
Init ==
  /\ \E seed \in Seeds : MainStateNew(seed)
  /\ fuel = WideFuel
  /\ price = [c \in EventClass |->
                IF c = "tick" THEN WideTickPrice
                ELSE IF c = "switch" THEN WideSwitchPrice ELSE WideKeyPrice]

Spec == Init /\ [][Next]_vars

\* SpecTrail: long runs of ticks; a key is affordable only among the first ticks.
TrailFuel == 104
TrailKeyPrice == 101
InitTrail ==
  /\ \E seed \in Seeds : MainStateNew(seed)
  /\ fuel = TrailFuel
  /\ price = [c \in EventClass |-> IF c = "tick" THEN 1 ELSE TrailKeyPrice]

SpecTrail == InitTrail /\ [][Next]_vars

\* SpecCount: long runs of C and V; a tick is affordable during the first presses,
\* any other key only as the first event.
CountFuel == 33
CountTickPrice == 22
CountKeyPrice == 32
InitCount ==
  /\ \E seed \in Seeds : MainStateNew(seed)
  /\ fuel = CountFuel
  /\ price = [c \in EventClass |->
                IF c = "count" THEN 1
                ELSE IF c = "tick" THEN CountTickPrice ELSE CountKeyPrice]

SpecCount == InitCount /\ [][Next]_vars

\* SpecScale: long runs of Z and X; anything else only as the first event.
ScaleFuel == 44
ScaleKeyPrice == 43
InitScale ==
  /\ \E seed \in Seeds : MainStateNew(seed)
  /\ fuel = ScaleFuel
  /\ price = [c \in EventClass |-> IF c = "scale" THEN 1 ELSE ScaleKeyPrice]

SpecScale == InitScale /\ [][Next]_vars

\* SpecTick: a few ticks under every variant; any other key only as the first
\* event.
TickFuel == 7
TickTickPrice == 3
TickKeyPrice == 6
InitTick ==
  /\ \E seed \in Seeds : MainStateNew(seed)
  /\ fuel = TickFuel
  /\ price = [c \in EventClass |->
                IF c = "tick" THEN TickTickPrice
                ELSE IF c = "switch" THEN 1 ELSE TickKeyPrice]

SpecTick == InitTick /\ [][Next]_vars

(***************************************************************************)
(* Trail length and contents (particle.rs, Particle::update)               *)
(***************************************************************************)
NatMin(a, b) == IF a < b THEN a ELSE b

\* C1: a particle that has received k >= 1 updates since its construction has a
\* trail of exactly min(k + 1, 100) points, and no trail is ever longer than
\* MAX_TRAIL_LENGTH.
C1_TrailLength ==
  /\ DOMAIN hist = DOMAIN particles
  /\ \A i \in DOMAIN particles :
       /\ Len(particles[i].trail) <= MAX_TRAIL_LENGTH
       /\ Len(hist[i]) >= 1 =>
            Len(particles[i].trail) = NatMin(Len(hist[i]) + 1, MAX_TRAIL_LENGTH)

\* A particle past the capacity: 101 updates, 100 points.
C1_Witness ==
  \E i \in DOMAIN particles :
     Len(hist[i]) = MAX_TRAIL_LENGTH + 1 /\ Len(particles[i].trail) = MAX_TRAIL_LENGTH

\* C9: once a particle has received k >= 100 updates its trail is exactly the
\* screen positions of its last 100 updates, oldest first (so each further update
\* drops the oldest point and appends the new one, and the first-insert duplicate
\* is gone).
C9_TrailFifo ==
  \A i \in DOMAIN particles :
     Len(hist[i]) >= MAX_TRAIL_LENGTH =>
        particles[i].trail =
          SubSeq(hist[i], Len(hist[i]) - MAX_TRAIL_LENGTH + 1, Len(hist[i]))

\* A particle four updates past the first full trail: points 5 .. 104 are kept.
C9_Witness ==
  \E i \in DOMAIN particles :
     /\ Len(hist[i]) = MAX_TRAIL_LENGTH + 4
     /\ particles[i].trail[1] = hist[i][5]
     /\ particles[i].trail[1] # hist[i][4]
     /\ particles[i].trail[MAX_TRAIL_LENGTH] = hist[i][MAX_TRAIL_LENGTH + 4]

(***************************************************************************)
(* Controls (main_state.rs, key_down_event)                                *)
(***************************************************************************)
\* C2: the collection holds exactly particle_count particles in every reachable
\* state; C pressed at 200 leaves the count at 200 with 200 particles.
C2_ParticleCountMatches ==
  /\ Len(particles) = particle_count
  /\ (last.event = "C" /\ last.particle_count + ParticleCountStep > MaxParticleCount)
       => (particle_count = MaxParticleCount /\ Len(particles) = MaxParticleCount)

\* C was pressed when the count was already 200.
C2_Witness ==
  /\ last.event = "C"
  /\ last.particle_count = MaxParticleCount
  /\ Len(particles) = MaxParticleCount

\* C3: time_scale stays within [0.1, 5.0].
C3_TimeScaleRange == F32Le(Lit0_1, time_scale) /\ F32Le(time_scale, Lit5_0)

\* Z was pressed when the time scale was already 5.0.
C3_Witness == last.event = "Z" /\ last.time_scale = Lit5_0 /\ time_scale = Lit5_0

\* C4: particle_count stays within [5, 200]; V at 5 leaves it at 5 and C at 200
\* leaves it at 200.
C4_ParticleCountRange ==
  /\ MinParticleCount <= particle_count
  /\ particle_count <= MaxParticleCount
  /\ (last.event = "V" /\ last.particle_count = MinParticleCount)
       => particle_count = MinParticleCount
  /\ (last.event = "C" /\ last.particle_count = MaxParticleCount)
       => particle_count = MaxParticleCount

\* V was pressed when the count was already 5.
C4_Witness ==
  /\ last.event = "V"
  /\ last.particle_count = MinParticleCount
  /\ particle_count = MinParticleCount

SwitchEvents == {"Key1", "Key2", "Key3", "Key4"}
KeyTarget == [k \in SwitchEvents |->
                CASE k = "Key1" -> "Lorenz" [] k = "Key2" -> "Rossler"
                  [] k = "Key3" -> "Aizawa" [] k = "Key4" -> "ChenLee"]

\* The particles are those a reseed has just pushed: particle_count fresh
\* particles of the active variant, none updated, all trails empty.
FreshlySeeded ==
  /\ particles \in {InitializeParticles(system_type, particle_count, seed) :
                      seed \in Seeds}
  /\ \A i \in DOMAIN particles : particles[i].trail = << >> /\ hist[i] = << >>

\* C5: pressing the key of the variant that is already active changes nothing:
\* variant, particles (state, trail, colour), parameters and controls stay as
\* they are, and no reseed happens.
C5_SwitchIdempotent ==
  [][\A k \in SwitchEvents :
       (last'.event = k /\ system_type = KeyTarget[k])
          => UNCHANGED <<main_state, hist, running>>]_vars

\* Key 2 was pressed under Rossler with particles that had been updated, and they
\* still have their trails.
C5_Witness ==
  /\ last.event = "Key2"
  /\ last.system_type = "Rossler"
  /\ last.ticked
  /\ \A i \in DOMAIN particles : Len(particles[i].trail) >= 2

\* C6: pressing the key of a variant other than the active one makes that variant
\* active and reseeds: right afterwards every particle is freshly constructed
\* with an empty trail, so no trail point of the previous variant survives.
C6_SwitchReseeds ==
  (last.event \in SwitchEvents /\ last.system_type # KeyTarget[last.event])
     => (system_type = KeyTarget[last.event] /\ FreshlySeeded)

\* Back to Lorenz from a Rossler whose particles had trails: the trails are gone.
C6_Witness ==
  /\ last.event = "Key1"
  /\ last.system_type = "Rossler"
  /\ last.ticked
  /\ system_type = "Lorenz"
  /\ ~Ticked

\* C7 as stated: C pressed at 200 or V pressed at 5 leaves the count unchanged
\* and performs no reseed, so the particles and their trails are preserved.
C7_NoReseedAtClamp ==
  [][((last'.event = "C" /\ particle_count = MaxParticleCount)
       \/ (last'.event = "V" /\ particle_count = MinParticleCount))
        => (particle_count' = particle_count /\ particles' = particles)]_vars

\* C7, as the code has it: C and V reseed on every press, also when the clamped
\* count equals the current one; at the clamp the count is unchanged but the
\* particles are replaced by freshly constructed ones with empty trails.
C7_CountKeysAlwaysReseed ==
  last.event \in {"C", "V"} =>
    /\ FreshlySeeded
    /\ (last.event = "C" /\ last.particle_count = MaxParticleCount)
          => particle_count = MaxParticleCount
    /\ (last.event = "V" /\ last.particle_count = MinParticleCount)
          => particle_count = MinParticleCount

\* V was pressed at 5 with particles that had trails: the count is still 5 and
\* the trails are gone.
C7_Witness ==
  /\ last.event = "V"
  /\ last.particle_count = MinParticleCount
  /\ last.ticked
  /\ particle_count = MinParticleCount
  /\ ~Ticked

(***************************************************************************)
(* Coefficients and kinetics (main_state.rs, update_particles)             *)
(***************************************************************************)
ParamEvents == {"Q", "A", "W", "S", "E", "D", "R", "F"}

\* States at which the kinetics are compared: every coordinate is non-zero, so
\* every coefficient contributes to a derivative.
KineticsProbes == {<<F32One, F32One, F32Dec(0, 20, 1)>>,
                   <<F32Half, F32Dec(1, 1, 1), F32Two>>}

SameKinetics(st, P, Q) ==
  \A pt \in KineticsProbes :
     Derivative(st, P, pt[1], pt[2], pt[3]) = Derivative(st, Q, pt[1], pt[2], pt[3])

\* C8 as stated: an adjustment made while one variant is active never changes a
\* coefficient read by another variant's kinetics; in particular E and D under
\* Lorenz leave the beta of the Aizawa dz equation unchanged.
C8_CoefficientsNamespaced ==
  [][last'.event \in ParamEvents =>
       \A st \in SystemType \ {system_type} : SameKinetics(st, parameters', parameters)]_vars

\* C8, as the code has it: there is one beta, read by the dz of Lorenz and of
\* Aizawa alike.  E and D pressed under Lorenz change it and with it the Aizawa
\* kinetics; every other adjustment leaves the kinetics of the variants that are
\* not active unchanged.
C8_BetaShared ==
  [][last'.event \in ParamEvents =>
       \A st \in SystemType \ {system_type} :
          SameKinetics(st, parameters', parameters)
            <=> ~(system_type = "Lorenz" /\ st = "Aizawa" /\ last'.event \in {"E", "D"})]_vars

\* E or D was pressed under Lorenz, Aizawa was made active and ticked: its dz reads
\* the adjusted beta.
C8_Witness ==
  /\ last.event = "Tick"
  /\ system_type = "Aizawa"
  /\ parameters.beta # SystemParametersNew.beta
  /\ [parameters EXCEPT !.beta = SystemParametersNew.beta] = SystemParametersNew
  /\ ~SameKinetics("Aizawa", parameters, SystemParametersNew)

\* The kinetics of spec section 4.1, each formula read from left to right in f32.
Kinetics41(st, P, x, y, z) ==
  CASE st = "Lorenz" ->
         <<F32Mul(P.sigma, F32Sub(y, x)),
           F32Sub(F32Mul(x, F32Sub(P.rho, z)), y),
           F32Sub(F32Mul(x, y), F32Mul(P.beta, z))>>
    [] st = "Rossler" ->
         <<F32Sub(F32Neg(y), z),
           F32Add(x, F32Mul(P.a, y)),
           F32Add(P.b, F32Mul(z, F32Sub(x, P.c)))>>
    [] st = "Aizawa" ->
         <<F32Sub(F32Mul(F32Sub(z, P.gamma), x), F32Mul(P.delta, y)),
           F32Add(F32Mul(P.delta, x), F32Mul(F32Sub(z, P.gamma), y)),
           F32Add(F32Sub(F32Sub(F32Add(P.alpha, F32Mul(P.beta, z)),
                                F32Div3(F32Mul(F32Mul(z, z), z))),
                         F32Mul(F32Add(F32Mul(x, x), F32Mul(y, y)),
                                F32Add(F32One, F32Mul(P.epsilon, z)))),
                  F32Mul(F32Mul(F32Mul(F32Mul(P.delta, z), x), x), x))>>
    [] st = "ChenLee" ->
         <<F32Sub(F32Mul(P.p, x), F32Mul(y, z)),
           F32Add(F32Mul(P.q, y), F32Mul(x, z)),
           F32Add(F32Mul(P.r, z), F32Div3(F32Mul(x, y)))>>

\* new_state = state + derivative * effective_dt
Euler41(state, d, effective_dt) ==
  <<F32Add(state[1], F32Mul(d[1], effective_dt)),
    F32Add(state[2], F32Mul(d[2], effective_dt)),
    F32Add(state[3], F32Mul(d[3], effective_dt))>>

\* a is the f32 nearest to b, or one of its two neighbours
F32Near(a, b) == a - b \in {-1, 0, 1}

\* Scenario A: Lorenz, default parameters, dt 0.01, time scale 1, a particle at
\* (1, 1, 20).
ScenarioAParticle == ParticleNew(F32One, F32One, F32Dec(0, 20, 1),
                                 <<F32One, F32One, F32One, F32One>>)
ScenarioADerivative == Derivative("Lorenz", SystemParametersNew, ScenarioAParticle.x,
                                  ScenarioAParticle.y, ScenarioAParticle.z)
ScenarioAArgs == UpdateArgs(ScenarioAParticle, "Lorenz", SystemParametersNew,
                            F32Mul(DefaultDt, DefaultTimeScale))

\* C10: a tick advances every particle by forward Euler with the step
\* dt * time_scale, new_state = state + f(state) * (dt * time_scale), f being the
\* kinetics of section 4.1 for the active variant at the state before the tick
\* with the current parameters; scenario A gives the derivative
\* (0, 7, 1 - (8/3)*20) and the new state (1, 1.07, 20 + 0.01*(1 - 160/3)), up to
\* the last bit of an f32.
C10_ForwardEuler ==
  /\ ScenarioADerivative[1] = F32Zero(0)
  /\ ScenarioADerivative[2] = F32Dec(0, 7, 1)
  /\ F32Near(ScenarioADerivative[3], F32Dec(1, 157, 3))
  /\ ScenarioAArgs.x = F32One
  /\ F32Near(ScenarioAArgs.y, F32Dec(0, 107, 100))
  /\ F32Near(ScenarioAArgs.z, F32Dec(0, 5843, 300))
  /\ [][last'.event = "Tick" =>
          /\ DOMAIN particles' = DOMAIN particles
          /\ \A i \in DOMAIN particles :
               <<particles'[i].x, particles'[i].y, particles'[i].z>> =
                 Euler41(<<particles[i].x, particles[i].y, particles[i].z>>,
                         Kinetics41(system_type, parameters, particles[i].x,
                                    particles[i].y, particles[i].z),
                         F32Mul(dt, time_scale))]_vars

\* A tick under Chen-Lee with the time scale raised by Z.
C10_Witness ==
  /\ last.event = "Tick"
  /\ system_type = "ChenLee"
  /\ time_scale = F32Add(DefaultTimeScale, Lit0_1)
  /\ Ticked

(***************************************************************************)
(* Parameter keys and resets (main_state.rs, key_down_event)               *)
(***************************************************************************)
\* The key table of the specification: the coefficient each pair of keys adjusts
\* under each variant, and by how much.
TableField ==
  [k \in {"Q", "A", "W", "S", "E", "D"} |->
     CASE k \in {"Q", "A"} -> [Lorenz |-> "sigma", Rossler |-> "a",
                               Aizawa |-> "alpha", ChenLee |-> "p"]
       [] k \in {"W", "S"} -> [Lorenz |-> "rho", Rossler |-> "b",
                               Aizawa |-> "gamma", ChenLee |-> "q"]
       [] k \in {"E", "D"} -> [Lorenz |-> "beta", Rossler |-> "c",
                               Aizawa |-> "delta", ChenLee |-> "r"]]

TableDelta(k, st) ==
  IF k \in {"E", "D"} THEN Lit0_01
  ELSE IF st \in {"Lorenz", "ChenLee"} THEN Lit0_1 ELSE Lit0_01

TableAdjust(k, st, v) ==
  IF k \in {"Q", "W", "E"} THEN F32Add(v, TableDelta(k, st))
                           ELSE F32Sub(v, TableDelta(k, st))

\* C11: each of Q/A, W/S, E/D changes exactly the coefficient the key table names
\* for the active variant, by the flat delta of the table and without a bound
\* check, and does not reseed: particles, trails, variant and controls stay.
C11_ParameterKeys ==
  [][\A k \in DOMAIN TableField :
       last'.event = k =>
         /\ parameters' =
              [parameters EXCEPT ![TableField[k][system_type]] =
                                    TableAdjust(k, system_type, @)]
         /\ parameters'[TableField[k][system_type]]
              # parameters[TableField[k][system_type]]
         /\ UNCHANGED <<particles, hist, system_type, dt, show_ui, trail_enabled,
                        time_scale, particle_count, running>>]_vars

\* D pressed under Chen-Lee: r is 0.01 below its default.
C11_Witness ==
  /\ last.event = "D"
  /\ system_type = "ChenLee"
  /\ parameters = [SystemParametersNew EXCEPT !.r = F32Sub(@, Lit0_01)]

\* C12: R and F under Aizawa change epsilon by +0.01 / -0.01 and do not reseed;
\* under the other variants they reseed and change no parameter.  Backspace
\* reseeds under every variant and changes no parameter.
C12_ResetKeys ==
  [][/\ (last'.event \in {"R", "F"} /\ system_type = "Aizawa") =>
          /\ parameters' =
               [parameters EXCEPT !.epsilon =
                  IF last'.event = "R" THEN F32Add(@, Lit0_01) ELSE F32Sub(@, Lit0_01)]
          /\ parameters'.epsilon # parameters.epsilon
          /\ UNCHANGED <<particles, hist>>
     /\ (last'.event = "Back" \/ (last'.event \in {"R", "F"} /\ system_type # "Aizawa")) =>
          /\ parameters' = parameters
          /\ FreshlySeeded'
     /\ last'.event \in {"R", "F", "Back"} =>
          UNCHANGED <<system_type, dt, show_ui, trail_enabled, time_scale,
                      particle_count, running>>]_vars

\* R pressed under Aizawa with particles that have trails: epsilon is raised and
\* the trails are still there.
C12_Witness ==
  /\ last.event = "R"
  /\ system_type = "Aizawa"
  /\ last.ticked
  /\ Ticked
  /\ parameters.epsilon = F32Add(SystemParametersNew.epsilon, Lit0_01)

(***************************************************************************)
(* Independence of the particles within a tick                             *)
(***************************************************************************)
\* One iteration of the loop of update_particles on the particle p.
LoopBody(p, args) == ParticleUpdate(p, args.x, args.y, args.z, args.pos)

\* The loop run over the indices of order, one after the other, each iteration
\* reading the collection as the earlier iterations have left it.
RECURSIVE LoopInOrder(_, _, _, _, _)
LoopInOrder(order, ps, st, P, step) ==
  IF order = << >> THEN ps
  ELSE LoopInOrder(Tail(order),
                   [ps EXCEPT ![Head(order)] =
                      LoopBody(ps[Head(order)],
                               UpdateArgs(ps[Head(order)], st, P, step))],
                   st, P, step)

Forward(n) == [i \in 1..n |-> i]
Backward(n) == [i \in 1..n |-> n + 1 - i]
\* odd indices first, then the even ones
OddsThenEvens(n) ==
  [i \in 1..n |-> IF i <= (n + 1) \div 2 THEN 2 * i - 1 ELSE 2 * (i - (n + 1) \div 2)]

\* C13: within a tick the particles are updated independently: each particle's
\* new state and appended trail point depend only on its own state before the
\* tick, the variant, the parameters and dt * time_scale, so running the loop
\* over the particles in another order gives the same collection as the
\* sequential loop.
C13_ParticlesIndependent ==
  [][last'.event = "Tick" =>
       /\ \A i \in DOMAIN particles :
            \E args \in {UpdateArgs(particles[i], system_type, parameters,
                                    F32Mul(dt, time_scale))} :
               /\ particles'[i] = LoopBody(particles[i], args)
               /\ hist'[i] = Append(hist[i], args.pos)
       /\ \A order \in {Forward(Len(particles)), Backward(Len(particles)),
                        OddsThenEvens(Len(particles))} :
            particles' = LoopInOrder(order, particles, system_type, parameters,
                                     F32Mul(dt, time_scale))]_vars

\* A tick under Rossler, on particles that differ from one another.
C13_Witness ==
  /\ last.event = "Tick"
  /\ system_type = "Rossler"
  /\ \E i, j \in DOMAIN particles :
        particles[i].z # particles[j].z /\ particles[i].trail # particles[j].trail

(***************************************************************************)
(* Toggles (main_state.rs, key_down_event T and H)                         *)
(***************************************************************************)
\* C14: T negates trail_enabled only and H negates show_ui only; variant,
\* parameters, time_scale, particle_count and every particle's state and trail
\* are unchanged.  The tick keeps appending to the trails while trail rendering
\* is off, and pressing the same toggle twice in a row restores the state from
\* before the first press.
C14_TogglesOnly ==
  [][/\ last'.event = "T" =>
          /\ trail_enabled' = ~trail_enabled
          /\ UNCHANGED <<particles, hist, system_type, parameters, dt, show_ui,
                         time_scale, particle_count, running>>
     /\ last'.event = "H" =>
          /\ show_ui' = ~show_ui
          /\ UNCHANGED <<particles, hist, system_type, parameters, dt, trail_enabled,
                         time_scale, particle_count, running>>
     /\ (last'.event \in {"T", "H"} /\ last.event = last'.event) =>
          main_state' = last.origin
     /\ (last'.event = "Tick" /\ ~trail_enabled) =>
          \A i \in DOMAIN particles :
             /\ particles'[i].trail # particles[i].trail
             /\ particles'[i].trail[Len(particles'[i].trail)]
                  = hist'[i][Len(hist'[i])]
             /\ Len(hist'[i]) = Len(hist[i]) + 1]_vars

\* trail rendering was switched off and a tick has appended to the trails since
C14_Witness ==
  /\ last.event = "Tick"
  /\ ~trail_enabled
  /\ \A i \in DOMAIN particles : Len(particles[i].trail) >= 2

\* T has been pressed twice in a row: the state is the one before the first press
C14_PressedTwice ==
  /\ last.event = "T"
  /\ last.origin # << >>
  /\ last.origin[6] # trail_enabled
  /\ trail_enabled

(***************************************************************************)
(* Reseeding (main_state.rs, initialize_particles)                         *)
(***************************************************************************)
\* The initial-condition boxes of the specification: per variant and coordinate
\* the bounds <<lo, hi>>.
Box44 ==
  [st \in SystemType |->
     CASE st = "Lorenz" -> <<<<F32Dec(1, 1, 1), F32Dec(0, 1, 1)>>,
                             <<F32Dec(1, 1, 1), F32Dec(0, 1, 1)>>,
                             <<F32Dec(0, 15, 1), F32Dec(0, 25, 1)>> >>
       [] st = "Aizawa" -> [c \in 1..3 |-> <<F32Dec(1, 1, 10), F32Dec(0, 1, 10)>>]
       [] OTHER         -> [c \in 1..3 |-> <<F32Dec(1, 1, 1), F32Dec(0, 1, 1)>>]]

InBox(st, p) ==
  /\ F32Le(Box44[st][1][1], p.x) /\ F32Le(p.x, Box44[st][1][2])
  /\ F32Le(Box44[st][2][1], p.y) /\ F32Le(p.y, Box44[st][2][2])
  /\ F32Le(Box44[st][3][1], p.z) /\ F32Le(p.z, Box44[st][3][2])

\* The last event was a reseed: start-up, a switch to another variant, R or F
\* outside Aizawa, Backspace, C or V.
Reseeded ==
  \/ last.event \in {"new", "Back", "C", "V"}
  \/ last.event \in SwitchEvents /\ last.system_type # KeyTarget[last.event]
  \/ last.event \in {"R", "F"} /\ last.system_type # "Aizawa"

\* C15: right after any reseed there are particle_count particles, each with an
\* empty trail and a state inside the box of the variant active at that moment,
\* and none of them has been updated: no particle from before the reseed remains.
C15_ReseedInBox ==
  Reseeded =>
    /\ Len(particles) = particle_count
    /\ DOMAIN hist = DOMAIN particles
    /\ \A i \in DOMAIN particles :
         /\ particles[i].trail = << >>
         /\ hist[i] = << >>
         /\ InBox(system_type, particles[i])

\* F pressed under Chen-Lee after a tick: the particles that had left their
\* initial states are replaced.
C15_Witness ==
  /\ last.event = "F"
  /\ system_type = "ChenLee"
  /\ last.ticked
  /\ ~Ticked

(***************************************************************************)
(* Rows of Z and X presses (main_state.rs, key_down_event Z and X)          *)
(***************************************************************************)
\* C16 as stated, scenario C: ten presses of Z from the default 1.0 yield
\* time_scale = 2.0.
C16_TenPressesGiveTwo ==
  (last.event = "Z" /\ last.run = 10 /\ last.run_from = DefaultTimeScale)
     => time_scale = F32Two

\* The time scale f, 0.0625 <= f < 8, in tenths of 2^-24, rounded down to a
\* multiple of 10.
Tenths24(f) ==
  IF F32Bits(f) \div 8388608 >= 126
  THEN 10 * (F32Mant(f) * 2^((F32Bits(f) \div 8388608) - 126))
  ELSE 10 * (F32Mant(f) \div 2^(126 - (F32Bits(f) \div 8388608)))

\* 0.00001 in the same unit
Tolerance24 == (10 * 16777216) \div 100000

\* t + 0.1 * n for Z, t - 0.1 * n for X, clamped to [0.1, 5.0], in the same unit
IdealRun24(key, t, n) ==
  IF key = "Z"
  THEN NatMin(Tenths24(t) + n * 16777216, 50 * 16777216)
  ELSE -NatMin(n * 16777216 - Tenths24(t), -16777216)

\* C16, as the code has it: the presses add and subtract the f32 nearest to 0.1
\* and round after every press, so n presses of Z from t yield
\* min(t + 0.1*n, 5.0), and n presses of X yield max(t - 0.1*n, 0.1), only to
\* within 0.00001; ten presses of Z from 1.0 yield 2.0000002, the f32 next above
\* 2.0.  The time scale is exactly 5.0 or exactly 0.1 only when the clamp has
\* acted.
C16_RunsWithinTolerance ==
  /\ last.event \in {"Z", "X"} =>
       /\ Tenths24(time_scale) - IdealRun24(last.event, last.run_from, last.run)
            \in (-Tolerance24)..Tolerance24
       /\ (last.event = "Z" /\ time_scale # Lit5_0) =>
             time_scale = F32Add(last.time_scale, Lit0_1)
       /\ (last.event = "X" /\ time_scale # Lit0_1) =>
             time_scale = F32Sub(last.time_scale, Lit0_1)
  /\ (last.event = "Z" /\ last.run = 10 /\ last.run_from = DefaultTimeScale)
       => time_scale = F32Two + 1

\* Z has been pressed ten times in a row from 1.0.
C16_Witness ==
  /\ last.event = "Z"
  /\ last.run = 10
  /\ last.run_from = DefaultTimeScale
  /\ time_scale # F32Two

(***************************************************************************)
(* What is drawn (main_state.rs, draw) and what a tick leaves alone        *)
(***************************************************************************)
\* C17: every trail has length 0 or a length from 2 to 100, never 1; a trail has
\* fewer than 2 points, which the renderer skips, exactly when its particle has
\* not been updated since the last reseed.
C17_NoSinglePointTrail ==
  \A i \in DOMAIN particles :
     /\ Len(particles[i].trail) \in {0} \cup (2..MAX_TRAIL_LENGTH)
     /\ Len(particles[i].trail) < 2 <=> hist[i] = << >>

\* After the first update of a particle its trail holds the point twice.
C17_Witness ==
  \E i \in DOMAIN particles :
     /\ Len(hist[i]) = 1
     /\ particles[i].trail = <<hist[i][1], hist[i][1]>>

\* C18: for every particle with a non-empty trail the newest trail point equals
\* get_screen_pos for the active variant, computed from the particle's current
\* x and y.
C18_HeadOfTrail ==
  \A i \in DOMAIN particles :
     particles[i].trail # << >> =>
        particles[i].trail[Len(particles[i].trail)]
          = get_screen_pos(particles[i], system_type)

\* Ticked under Lorenz, switched to Aizawa and ticked again: the head of each
\* trail is computed with Aizawa's scale factor.
C18_Witness ==
  /\ last.event = "Tick"
  /\ system_type = "Aizawa"
  /\ fuel = WideFuel - 2 * WideTickPrice - WideSwitchPrice
  /\ \A i \in DOMAIN particles : Len(particles[i].trail) = 2

\* C19: a tick changes only x, y, z and the trail of the existing particles; the
\* variant, the 13 parameters, dt, time_scale, particle_count, both toggles, the
\* number of particles, their order and their colours are unchanged.
C19_TickFrame ==
  [][last'.event = "Tick" =>
       /\ UNCHANGED <<system_type, parameters, dt, time_scale, particle_count,
                      show_ui, trail_enabled, running>>
       /\ DOMAIN particles' = DOMAIN particles
       /\ \A i \in DOMAIN particles :
            /\ particles'[i].color = particles[i].color
            /\ DOMAIN particles'[i] = DOMAIN particles[i]
            /\ IF particles[i].trail = << >>
               THEN Len(particles'[i].trail) = 2
               ELSE SubSeq(particles'[i].trail, 1, Len(particles'[i].trail) - 1)
                      \in {particles[i].trail, Tail(particles[i].trail)}]_vars

\* A tick under Rossler with an adjusted parameter.
C19_Witness ==
  /\ last.event = "Tick"
  /\ Ticked
  /\ parameters # SystemParametersNew
  /\ system_type = "Rossler"

\* C20: the parameters start as the defaults and change only through the
\* parameter keys (Q/A, W/S, E/D, and R/F under Aizawa): no reseed, switch, count
\* change, time-scale change, toggle or tick alters a coefficient, so tuned values
\* are in force again when the user returns to a variant.  time_scale, dt and the
\* toggles survive every reseed and every switch.
C20_ParametersPersist ==
  /\ (last.event = "new" => parameters = SystemParametersNew)
  /\ [][/\ ~(last'.event \in DOMAIN TableField
              \/ (last'.event \in {"R", "F"} /\ system_type = "Aizawa"))
            => parameters' = parameters
        /\ last'.event \in SwitchEvents \cup {"R", "F", "Back", "C", "V"}
            => UNCHANGED <<time_scale, dt, show_ui, trail_enabled>>]_vars

\* Sigma was raised under Lorenz; after a switch to Rossler and back it is still
\* raised.
C20_Witness ==
  /\ last.event = "Key1"
  /\ last.system_type = "Rossler"
  /\ system_type = "Lorenz"
  /\ parameters.sigma = F32Add(SystemParametersNew.sigma, Lit0_1)

=============================================================================
